---- MODULE Spec2Model ----
(***************************************************************************)
(* A model of genomics-daily: the literature-retrieval program             *)
(* (genomics-daily.py) and the posting bot (genomics-daily-bot.py).        *)
(*                                                                         *)
(* A Python str is a sequence of code points; a code point is written as a *)
(* one-character string, except the non-ASCII ones, which are written by   *)
(* their U+ name.  len() is Len, and the UTF-8 width of a code point is    *)
(* Utf8Width.                                                              *)
(***************************************************************************)
EXTENDS Integers, Sequences, FiniteSets, TLC

VARIABLES
    pc,              \* position of the running function / program
    program,         \* which entry point runs: "daily", "bot", or a function under test
    tweet,           \* prepare_tweet's argument / generate_tweet's return value
    url,             \* the url argument
    final_tweet,     \* prepare_tweet's return value, create_facets' text
    facets,          \* create_facets' return value
    clean_in,        \* clean_text's argument
    clean_once,      \* clean_text(clean_in)
    clean_twice,     \* clean_text(clean_text(clean_in))
    env,             \* the credentials set in os.environ
    netCalls,        \* the network calls attempted so far, in order
    posts,           \* the platforms a post has been published to
    error,           \* the exception that ended the run, or None
    today,           \* the system clock's calendar day (days since 2024/01/01)
    ticks,           \* midnights passed since the program started
    days_back,       \* main's days_back argument
    end_date,        \* retrieve_...: end_date, as a day
    start_date,      \* retrieve_...: start_date, as a day
    date_clause,     \* <<start_date_str, end_date_str>> of search_query
    response,        \* the articles of the efetch response, in document order
    idx,             \* the extraction loop's position in the response
    papers,          \* retrieve_...: papers
    df               \* retrieve_...: the returned DataFrame's rows

cleanVars == <<clean_in, clean_once, clean_twice>>
textVars  == <<tweet, url, final_tweet, facets>>
runVars   == <<env, netCalls, posts, error>>
dateVars  == <<today, ticks, days_back, end_date, start_date, date_clause>>
loopVars  == <<response, idx, papers, df>>

vars == <<pc, program, textVars, cleanVars, runVars, dateVars, loopVars>>

None == "None"

\* the values of the variables a program or a function under test does not use
NoText == tweet = None /\ url = <<>> /\ final_tweet = None /\ facets = <<>>

NoClean == clean_in = <<>> /\ clean_once = None /\ clean_twice = None

NoLoop == response = <<>> /\ idx = 0 /\ papers = <<>> /\ df = None

NoDates ==
    /\ today = 0 /\ ticks = 0 /\ days_back = 0
    /\ end_date = None /\ start_date = None /\ date_clause = None

NoRun ==
    /\ env = {} /\ netCalls = <<>> /\ posts = {} /\ error = None
    /\ NoDates /\ NoLoop

\* ---------------------------------------------------------------- strings

Rep(c, n) == [i \in 1..n |-> c]

Slice(s, a, b) == IF a > b THEN <<>> ELSE [i \in 1..(b - a + 1) |-> s[a + i - 1]]

RECURSIVE Concat(_)
Concat(ss) == IF ss = <<>> THEN <<>> ELSE Head(ss) \o Concat(Tail(ss))

Min(a, b) == IF a < b THEN a ELSE b

\* the first of a set of indices, none when the set is empty
First(S, none) == IF S = {} THEN none ELSE CHOOSE j \in S : \A m \in S : j <= m

\* the k-th smallest element of a set of numbers
Nth(S, k) == CHOOSE i \in S : Cardinality({ j \in S : j <= i }) = k

\* The code points the model's texts are written in.
Emoji == "U+1F9EC"
LowerCase == {"a","b","c","d","e","f","g","h","i","j","k","l","m",
              "n","o","p","q","r","s","t","u","v","w","x","y","z"}
UpperCase == {"A", "C", "N"}
Digits    == {"0","1","2","3","4","5","6","7","8","9"}

\* \w of a str pattern: alphanumerics and the underscore.
IsWord(c) == c \in LowerCase \cup UpperCase \cup Digits \cup {"_"}

\* what str.split() without arguments splits on
IsSpace(c) == c \in {" ", "\t", "\n", "\r", "\f"}

\* bytes of one code point in UTF-8 (str.encode('utf-8'))
Utf8Width(c) ==
    CASE c = Emoji -> 4
      [] c \in {"U+226B", "U+22D9", "U+2277", "U+2276", "U+226A"} -> 3
      [] OTHER -> 1

\* len(s.encode('utf-8')): one byte per code point, plus the further bytes
\* of the wider ones
Utf8Len(s) ==
    Len(s) + 3 * Cardinality({ i \in DOMAIN s : Utf8Width(s[i]) = 4 })
           + 2 * Cardinality({ i \in DOMAIN s : Utf8Width(s[i]) = 3 })

\* ------------------------------------------------- genomics-daily.py: clean_text

\* re.sub('<[^<]+?>', '', text): from an opening "<" at i, the lazy class
\* [^<]+? takes at least s[i+1] and stops at the first ">" after it; a "<"
\* met before that ">" fails the match at i.
RECURSIVE FindClose(_, _)
FindClose(s, j) ==
    IF j > Len(s) THEN 0
    ELSE IF s[j] = ">" THEN j
    ELSE IF s[j] = "<" THEN 0
    ELSE FindClose(s, j + 1)

TagEnd(s, i) ==
    IF s[i] = "<" /\ i + 1 <= Len(s) /\ s[i + 1] # "<" THEN FindClose(s, i + 2) ELSE 0

RECURSIVE StripTagsFrom(_, _)
StripTagsFrom(s, i) ==
    IF i > Len(s) THEN <<>>
    ELSE IF TagEnd(s, i) # 0 THEN StripTagsFrom(s, TagEnd(s, i) + 1)
    ELSE <<s[i]>> \o StripTagsFrom(s, i + 1)

StripTags(s) == StripTagsFrom(s, 1)

\* html.entities.html5, restricted to the names spelled with the letters
\* b, g, l, t (the letters of the model's inputs to clean_text).
Html5 ==
    [name \in { <<"l","t">>, <<"l","t",";">>, <<"g","t">>, <<"g","t",";">>,
                <<"g","g",";">>, <<"g","g","g",";">>, <<"g","l",";">>,
                <<"l","g",";">>, <<"l","l",";">> } |->
        CASE name \in { <<"l","t">>, <<"l","t",";">> } -> "<"
          [] name \in { <<"g","t">>, <<"g","t",";">> } -> ">"
          [] name = <<"g","g",";">> -> "U+226B"
          [] name = <<"g","g","g",";">> -> "U+22D9"
          [] name = <<"g","l",";">> -> "U+2277"
          [] name = <<"l","g",";">> -> "U+2276"
          [] name = <<"l","l",";">> -> "U+226A"]

\* html._replace_charref, named branch: the whole name, else its longest
\* proper prefix of at least two characters that is a name, else unchanged.
RECURSIVE LongestPrefix(_, _)
LongestPrefix(name, x) ==
    IF x < 2 THEN <<"&">> \o name
    ELSE IF Slice(name, 1, x) \in DOMAIN Html5
         THEN <<Html5[Slice(name, 1, x)]>> \o Slice(name, x + 1, Len(name))
    ELSE LongestPrefix(name, x - 1)

replace_charref(name) ==
    IF name \in DOMAIN Html5 THEN <<Html5[name]>>
    ELSE LongestPrefix(name, Len(name) - 1)

\* html._charref, named alternative: [^\t\n\f <&#;]{1,32};?
IsNameChar(c) == c \notin {"\t", "\n", "\f", " ", "<", "&", "#", ";"}

RECURSIVE NameEnd(_, _, _)
NameEnd(s, j, n) ==
    IF j + 1 <= Len(s) /\ n < 32 /\ IsNameChar(s[j + 1])
    THEN NameEnd(s, j + 1, n + 1) ELSE j

\* last index of the character reference that starts at the "&" at i, or 0
CharrefEnd(s, i) ==
    IF s[i] = "&" /\ i + 1 <= Len(s) /\ IsNameChar(s[i + 1])
    THEN LET e == NameEnd(s, i + 1, 1)
         IN  IF e + 1 <= Len(s) /\ s[e + 1] = ";" THEN e + 1 ELSE e
    ELSE 0

RECURSIVE UnescapeFrom(_, _)
UnescapeFrom(s, i) ==
    IF i > Len(s) THEN <<>>
    ELSE IF CharrefEnd(s, i) # 0
         THEN replace_charref(Slice(s, i + 1, CharrefEnd(s, i)))
                  \o UnescapeFrom(s, CharrefEnd(s, i) + 1)
    ELSE <<s[i]>> \o UnescapeFrom(s, i + 1)

unescape(s) == UnescapeFrom(s, 1)

\* str.split(): the maximal runs of non-whitespace, left to right
WordEnd(s, j) == First({ m \in (j + 1)..Len(s) : IsSpace(s[m]) }, Len(s) + 1) - 1

RECURSIVE SplitFrom(_, _)
SplitFrom(s, i) ==
    LET b == First({ m \in i..Len(s) : ~IsSpace(s[m]) }, Len(s) + 1)
    IN  IF b > Len(s) THEN <<>>
        ELSE <<Slice(s, b, WordEnd(s, b))>> \o SplitFrom(s, WordEnd(s, b) + 1)

Split(s) == SplitFrom(s, 1)

\* ' '.join(words)
RECURSIVE Join(_)
Join(ws) ==
    IF ws = <<>> THEN <<>>
    ELSE IF Len(ws) = 1 THEN ws[1]
    ELSE ws[1] \o <<" ">> \o Join(Tail(ws))

clean_text(text) == Join(Split(unescape(StripTags(text))))

\* ------------------------------------------ genomics-daily-bot.py: prepare_tweet

\* the length the post is trimmed to
TweetLimit == 300

\* 'Check out the latest genomics news! <DNA emoji> '
Fallback ==
    <<"C","h","e","c","k"," ","o","u","t"," ","t","h","e"," ",
      "l","a","t","e","s","t"," ","g","e","n","o","m","i","c","s"," ",
      "n","e","w","s","!"," ",Emoji," ">>

\* main's myURL: 'https://emmecola.github.io/genomics-daily'
myURL ==
    <<"h","t","t","p","s",":","/","/","e","m","m","e","c","o","l","a",".",
      "g","i","t","h","u","b",".","i","o","/",
      "g","e","n","o","m","i","c","s","-","d","a","i","l","y">>

\* the last index of the run of word characters that starts at j
WordRunEnd(s, j) == First({ m \in (j + 1)..Len(s) : ~IsWord(s[m]) }, Len(s) + 1) - 1

\* re.sub(sigil + r'\w+', '', s): every sigil that a word character follows
\* is removed with the whole run of word characters after it; the scan goes
\* on after the match.
RECURSIVE SubFrom(_, _, _)
SubFrom(s, sigil, i) ==
    LET m == First({ j \in i..(Len(s) - 1) : s[j] = sigil /\ IsWord(s[j + 1]) }, 0)
    IN  IF m = 0 THEN Slice(s, i, Len(s))
        ELSE Slice(s, i, m - 1) \o SubFrom(s, sigil, WordRunEnd(s, m + 1) + 1)

StripMentions(s) == SubFrom(s, "@", 1)

StripHashtags(s) == SubFrom(s, "#", 1)

prepare_tweet_no_fallback(t, u) ==
    LET appended == StripMentions(t) \o <<" ">> \o u
    IN  IF Len(appended) > TweetLimit THEN StripHashtags(appended) ELSE appended

prepare_tweet(t, u) ==
    LET appended == StripMentions(t) \o <<" ">> \o u
    IN  IF Len(appended) > TweetLimit
        THEN LET stripped == StripHashtags(appended)
             IN  IF Len(stripped) > TweetLimit THEN Fallback \o u ELSE stripped
        ELSE appended

\* ------------------------------------------ genomics-daily-bot.py: create_facets

\* str.find(sub, start): the lowest 0-based index >= start where sub occurs, or -1
Find(s, sub, start) ==
    First({ i \in start..(Len(s) - Len(sub)) : Slice(s, i + 1, i + Len(sub)) = sub }, -1)

\* s[:k], a negative k counting from the end
Prefix(s, k) == IF k >= 0 THEN Slice(s, 1, Min(k, Len(s))) ELSE Slice(s, 1, Len(s) + k)

\* url in text
Contains(s, sub) == Find(s, sub, 0) # -1

Facet(start, end, type, value) ==
    [byteStart |-> start, byteEnd |-> end, type |-> type, value |-> value]

LinkFacets(text, u) ==
    IF Contains(text, u)
    THEN LET start == Utf8Len(Prefix(text, Find(text, u, 0)))
         IN  <<Facet(start, start + Utf8Len(u), "link", u)>>
    ELSE <<>>

\* the loop over words, from word k on, with current_position
RECURSIVE TagFacets(_, _, _, _)
TagFacets(text, words, k, current_position) ==
    IF k > Len(words) THEN <<>>
    ELSE LET word  == words[k]
             found == Find(text, word, current_position)
             start == Utf8Len(Prefix(text, found))
             this  == IF word[1] = "#"
                      THEN <<Facet(start, start + Utf8Len(word), "tag", Tail(word))>>
                      ELSE <<>>
         IN  this \o TagFacets(text, words, k + 1, found + Len(word))

\* every word is searched for from the start of the text
RECURSIVE TagFacetsFromStart(_, _, _, _)
TagFacetsFromStart(text, words, k, current_position) ==
    IF k > Len(words) THEN <<>>
    ELSE LET word  == words[k]
             found == Find(text, word, 0)
             start == Utf8Len(Prefix(text, found))
             this  == IF word[1] = "#"
                      THEN <<Facet(start, start + Utf8Len(word), "tag", Tail(word))>>
                      ELSE <<>>
         IN  this \o TagFacetsFromStart(text, words, k + 1, found + Len(word))

create_facets_from_start(text, u) ==
    LinkFacets(text, u) \o TagFacetsFromStart(text, Split(text), 1, 0)

create_facets(text, u) == LinkFacets(text, u) \o TagFacets(text, Split(text), 1, 0)

\* ------------------- genomics-daily.py: retrieve_genomics_papers_with_abstracts

\* datetime: a day is counted from 2024/01/01 = 0
IsLeap(y) == (y % 4 = 0 /\ y % 100 # 0) \/ y % 400 = 0

DaysInMonth(y, m) ==
    CASE m \in {4, 6, 9, 11} -> 30
      [] m = 2 -> IF IsLeap(y) THEN 29 ELSE 28
      [] OTHER -> 31

\* <<year, month, day of month>> of the day d days after the first of month m of year y
RECURSIVE YMD(_, _, _)
YMD(y, m, d) ==
    IF d < DaysInMonth(y, m) THEN <<y, m, d + 1>>
    ELSE IF m = 12 THEN YMD(y + 1, 1, d - DaysInMonth(y, m))
    ELSE YMD(y, m + 1, d - DaysInMonth(y, m))

Digit(n) == <<"0","1","2","3","4","5","6","7","8","9">>[n + 1]

\* strftime("%Y/%m/%d")
strftime(day) ==
    LET ymd == YMD(2024, 1, day)
        y == ymd[1]
        m == ymd[2]
        d == ymd[3]
    IN  <<Digit(y \div 1000), Digit((y \div 100) % 10), Digit((y \div 10) % 10), Digit(y % 10),
          "/", Digit(m \div 10), Digit(m % 10), "/", Digit(d \div 10), Digit(d % 10)>>

\* datetime.now() - timedelta(days=days_back)
DaysAgo(now, back) == now - back

\* An article of the response, by what the extraction reads of it: the text
\* get_full_text collects from its ArticleTitle and the text of its PMID;
\* NoElement when find() returns None, None when the element has no text.
\* The other fields (authors, journal, year, abstract) are read by
\* expressions that guard every find() and are not in the record here.
NoElement == "NoElement"

NA == <<"N","/","A">>

\* 'https://pubmed.ncbi.nlm.nih.gov/'
PubmedPrefix ==
    <<"h","t","t","p","s",":","/","/","p","u","b","m","e","d",".","n","c","b","i",".",
      "n","l","m",".","n","i","h",".","g","o","v","/">>

clean_title_text(title_element) ==
    IF title_element = NoElement THEN NA
    ELSE LET cleaned_text == clean_text(title_element)
         IN  IF cleaned_text # <<>> THEN cleaned_text ELSE NA

\* 'https://pubmed.ncbi.nlm.nih.gov/' + pmid_value is a TypeError when the
\* PMID element is there and its text is None
Raises(article) == article.pmid = None

PaperRecord(article) ==
    [Title |-> clean_title_text(article.title),
     PMID  |-> IF article.pmid # NoElement THEN article.pmid ELSE NA,
     Link  |-> IF article.pmid # NoElement THEN PubmedPrefix \o article.pmid ELSE NA]

\* one pass of the loop body: try ... papers.append(...) except: print
Extracted(ps, article) == IF Raises(article) THEN ps ELSE Append(ps, PaperRecord(article))

\* an exception ends the loop
NextArticleOrAbort(articles, i) == IF Raises(articles[i]) THEN Len(articles) + 1 ELSE i + 1

\* the for loop goes on to the next article, exception or not
NextArticle(articles, i) == i + 1

\* df.drop_duplicates(subset=['PMID']) with keep='last'
RECURSIVE DropDupLast(_, _)
DropDupLast(ps, k) ==
    IF k > Len(ps) THEN <<>>
    ELSE IF \E j \in (k + 1)..Len(ps) : ps[j].PMID = ps[k].PMID THEN DropDupLast(ps, k + 1)
    ELSE <<ps[k]>> \o DropDupLast(ps, k + 1)

drop_duplicates_keep_last(ps) == DropDupLast(ps, 1)

\* df.drop_duplicates(subset=['PMID']): keep='first'; rows keep their order
RECURSIVE DropDup(_, _, _)
DropDup(ps, k, seen) ==
    IF k > Len(ps) THEN <<>>
    ELSE IF ps[k].PMID \in seen THEN DropDup(ps, k + 1, seen)
    ELSE <<ps[k]>> \o DropDup(ps, k + 1, seen \cup {ps[k].PMID})

drop_duplicates(ps) == DropDup(ps, 1, {})

\* ------------------------------------------------------------ the two programs

Credentials ==
    {"ANTHROPIC_API_KEY", "BSKY_USER", "BSKY_PASSWORD", "MASTODON_TOKEN", "MASTODON_INSTANCE"}

\* the credentials a program reads
Required(prog) == IF prog = "daily" THEN {"ANTHROPIC_API_KEY"} ELSE Credentials

MaxArticles == 3

MaxDaysBack == 1

ArticleKinds ==
    { [pmid |-> NoElement, title |-> <<"b">>],
      [pmid |-> None,      title |-> <<"b">>],
      [pmid |-> <<"1">>,   title |-> <<"b">>],
      [pmid |-> <<"1">>,   title |-> <<"<","b",">","g">>],
      [pmid |-> <<"2">>,   title |-> NoElement] }

Responses == UNION { [1..n -> ArticleKinds] : n \in 0..MaxArticles }

\* what the model lets generate_tweet return: a short post, one that fits
\* once its hashtags go, one that does not fit
GeneratedTweets ==
    { <<"d","n","a"," ",Emoji," ","#","d","n","a"," ","@","b","o"," ","#","d","n","a">>,
      Rep("a", 250) \o <<" ","#","d","n","a"," ","#","d","n","a">>,
      Rep("a", 250) \o Rep("a", 250) }

\* genomics-daily.py started on the last day of February or of the year
InitDaily ==
    /\ program = "daily" /\ pc = "retrieve"
    /\ env \in SUBSET Required("daily")
    /\ netCalls = <<>> /\ posts = {} /\ error = None
    /\ today \in {59, 365} /\ ticks = 0
    /\ days_back \in 0..MaxDaysBack
    /\ end_date = None /\ start_date = None /\ date_clause = None
    /\ response \in Responses /\ idx = 0 /\ papers = <<>> /\ df = None
    /\ NoText /\ NoClean

InitBot ==
    /\ program = "bot" /\ pc = "load_text"
    /\ env \in SUBSET Required("bot")
    /\ netCalls = <<>> /\ posts = {} /\ error = None
    /\ tweet = None /\ url = myURL /\ final_tweet = None /\ facets = <<>>
    /\ NoDates /\ NoLoop /\ NoClean

Init == InitDaily \/ InitBot

\* an uncaught exception ends the run
Fail(e) == pc' = "failed" /\ error' = e

\* line 137: end_date = datetime.now() - timedelta(days=days_back)
ReadEndDate ==
    /\ program = "daily" /\ pc = "retrieve"
    /\ end_date' = DaysAgo(today, days_back)
    /\ pc' = "start_date"
    /\ UNCHANGED <<program, textVars, cleanVars, runVars, loopVars,
                   today, ticks, days_back, start_date, date_clause>>

\* The clock is seen through the two reads only: a midnight matters when it
\* falls between them.
Midnight ==
    /\ program = "daily" /\ pc = "start_date" /\ ticks = 0
    /\ today' = today + 1 /\ ticks' = 1
    /\ UNCHANGED <<pc, program, textVars, cleanVars, runVars, loopVars,
                   days_back, end_date, start_date, date_clause>>

\* lines 138-162: start_date, the two strftime calls, the search query
ReadStartDate ==
    /\ program = "daily" /\ pc = "start_date"
    /\ start_date' = DaysAgo(today, days_back)
    /\ date_clause' = <<strftime(start_date'), strftime(end_date)>>
    /\ pc' = "esearch"
    /\ UNCHANGED <<program, textVars, cleanVars, runVars, loopVars,
                   today, ticks, days_back, end_date>>

\* lines 173-178: requests.get(esearch) and the parse of its response
Search ==
    /\ program = "daily" /\ pc = "esearch"
    /\ netCalls' = Append(netCalls, "esearch")
    /\ pc' = "efetch"
    /\ UNCHANGED <<program, textVars, cleanVars, env, posts, error, dateVars, loopVars>>

SearchFails ==
    /\ program = "daily" /\ pc = "esearch"
    /\ netCalls' = Append(netCalls, "esearch")
    /\ Fail("RequestException")
    /\ UNCHANGED <<program, textVars, cleanVars, env, posts, dateVars, loopVars>>

\* lines 190-196: requests.get(efetch), the parse, papers = []
Fetch ==
    /\ program = "daily" /\ pc = "efetch"
    /\ netCalls' = Append(netCalls, "efetch")
    /\ idx' = 1 /\ papers' = <<>>
    /\ pc' = "extract"
    /\ UNCHANGED <<program, textVars, cleanVars, env, posts, error, dateVars, response, df>>

FetchFails ==
    /\ program = "daily" /\ pc = "efetch"
    /\ netCalls' = Append(netCalls, "efetch")
    /\ Fail("RequestException")
    /\ UNCHANGED <<program, textVars, cleanVars, env, posts, dateVars, loopVars>>

\* lines 197-244: one article of the loop
ExtractArticle ==
    /\ program = "daily" /\ pc = "extract" /\ idx <= Len(response)
    /\ papers' = Extracted(papers, response[idx])
    /\ idx' = NextArticle(response, idx)
    /\ UNCHANGED <<pc, program, textVars, cleanVars, runVars, dateVars, response, df>>

\* lines 247-250: the DataFrame, drop_duplicates, return
DropDuplicates ==
    /\ program = "daily" /\ pc = "extract" /\ idx > Len(response)
    /\ papers # <<>>
    /\ df' = drop_duplicates(papers)
    /\ pc' = "generate"
    /\ UNCHANGED <<program, textVars, cleanVars, runVars, dateVars, response, idx, papers>>

\* pd.DataFrame([]) has no PMID column: drop_duplicates raises KeyError
DropDuplicatesRaises ==
    /\ program = "daily" /\ pc = "extract" /\ idx > Len(response)
    /\ papers = <<>>
    /\ Fail("KeyError")
    /\ UNCHANGED <<program, textVars, cleanVars, env, netCalls, posts, dateVars, loopVars>>

\* both programs: the client is built and its api_key validated
CheckApiKey ==
    /\ pc = "generate"
    /\ "ANTHROPIC_API_KEY" \in env
    /\ pc' = "messages"
    /\ UNCHANGED <<program, textVars, cleanVars, runVars, dateVars, loopVars>>

CheckApiKeyRaises ==
    /\ pc = "generate"
    /\ "ANTHROPIC_API_KEY" \notin env
    /\ Fail("ValueError")
    /\ UNCHANGED <<program, textVars, cleanVars, env, netCalls, posts, dateVars, loopVars>>

\* generate_editorial_with_claude lines 342-360, main line 369: the call
\* returns the text, or None after an exception; main prints either
GenerateEditorial ==
    /\ program = "daily" /\ pc = "messages"
    /\ netCalls' = Append(netCalls, "messages.create")
    /\ (tweet' = <<"e">> \/ tweet' = None)
    /\ pc' = "done"
    /\ UNCHANGED <<program, url, final_tweet, facets, cleanVars, env, posts, error,
                   dateVars, loopVars>>

NextDaily ==
    \/ ReadEndDate \/ Midnight \/ ReadStartDate
    \/ Search \/ SearchFails \/ Fetch \/ FetchFails
    \/ ExtractArticle \/ DropDuplicates \/ DropDuplicatesRaises
    \/ CheckApiKey \/ CheckApiKeyRaises \/ GenerateEditorial

\* genomics-daily-bot.py main line 132: load_text returns the file's text,
\* or '' when it cannot be read; the run goes on either way
LoadText ==
    /\ program = "bot" /\ pc = "load_text"
    /\ pc' = "generate"
    /\ UNCHANGED <<program, textVars, cleanVars, runVars, dateVars, loopVars>>

\* generate_tweet lines 48-67: the call returns the tweet, or None after an
\* exception
GenerateTweet ==
    /\ program = "bot" /\ pc = "messages"
    /\ netCalls' = Append(netCalls, "messages.create")
    /\ (tweet' \in GeneratedTweets \/ tweet' = None)
    /\ pc' = "prepare"
    /\ UNCHANGED <<program, url, final_tweet, facets, cleanVars, env, posts, error,
                   dateVars, loopVars>>

\* main lines 134-135
PrepareGenerated ==
    /\ program = "bot" /\ pc = "prepare" /\ tweet # None
    /\ final_tweet' = prepare_tweet(tweet, url)
    /\ pc' = "bluesky_login"
    /\ UNCHANGED <<program, tweet, url, facets, cleanVars, runVars, dateVars, loopVars>>

\* re.sub on None is a TypeError
PrepareNoneRaises ==
    /\ program = "bot" /\ pc = "prepare" /\ tweet = None
    /\ Fail("TypeError")
    /\ UNCHANGED <<program, textVars, cleanVars, env, netCalls, posts, dateVars, loopVars>>

BlueskyCredentials == {"BSKY_USER", "BSKY_PASSWORD"}

MastodonCredentials == {"MASTODON_TOKEN", "MASTODON_INSTANCE"}

\* post_bluesky lines 116-119: no check of the credentials; login is called
\* with what os.getenv returned
BlueskyLogin ==
    /\ program = "bot" /\ pc = "bluesky_login"
    /\ BlueskyCredentials \subseteq env
    /\ netCalls' = Append(netCalls, "bsky.login")
    /\ pc' = "bluesky_post"
    /\ UNCHANGED <<program, textVars, cleanVars, env, posts, error, dateVars, loopVars>>

\* the login fails at the server, or, without credentials, possibly in the
\* client library before any request
BlueskyLoginFails ==
    /\ program = "bot" /\ pc = "bluesky_login"
    /\ \/ netCalls' = Append(netCalls, "bsky.login")
       \/ ~(BlueskyCredentials \subseteq env) /\ netCalls' = netCalls
    /\ Fail("LoginError")
    /\ UNCHANGED <<program, textVars, cleanVars, env, posts, dateVars, loopVars>>

\* post_bluesky lines 120-121
BlueskySend ==
    /\ program = "bot" /\ pc = "bluesky_post"
    /\ facets' = create_facets(final_tweet, url)
    /\ netCalls' = Append(netCalls, "bsky.send_post")
    /\ posts' = posts \cup {"bluesky"}
    /\ pc' = "mastodon"
    /\ UNCHANGED <<program, tweet, url, final_tweet, cleanVars, env, error, dateVars, loopVars>>

BlueskySendFails ==
    /\ program = "bot" /\ pc = "bluesky_post"
    /\ facets' = create_facets(final_tweet, url)
    /\ netCalls' = Append(netCalls, "bsky.send_post")
    /\ Fail("SendError")
    /\ UNCHANGED <<program, tweet, url, final_tweet, cleanVars, env, posts, dateVars, loopVars>>

\* post_mastodon lines 124-127: no check of the credentials either
MastodonPost ==
    /\ program = "bot" /\ pc = "mastodon"
    /\ MastodonCredentials \subseteq env
    /\ netCalls' = Append(netCalls, "mastodon.status_post")
    /\ posts' = posts \cup {"mastodon"}
    /\ pc' = "done"
    /\ UNCHANGED <<program, textVars, cleanVars, env, error, dateVars, loopVars>>

MastodonPostFails ==
    /\ program = "bot" /\ pc = "mastodon"
    /\ \/ netCalls' = Append(netCalls, "mastodon.status_post")
       \/ ~(MastodonCredentials \subseteq env) /\ netCalls' = netCalls
    /\ Fail("MastodonError")
    /\ UNCHANGED <<program, textVars, cleanVars, env, posts, dateVars, loopVars>>

NextBot ==
    \/ LoadText \/ GenerateTweet \/ PrepareGenerated \/ PrepareNoneRaises
    \/ BlueskyLogin \/ BlueskyLoginFails \/ BlueskySend \/ BlueskySendFails
    \/ MastodonPost \/ MastodonPostFails

Next == NextDaily \/ NextBot

Spec == Init /\ [][Next]_vars

\* the articles whose extraction does not raise, by position in the document
Extractable(articles) == { i \in 1..Len(articles) : ~Raises(articles[i]) }

\* of those, the first of each PMID
FirstOfPmid(articles) ==
    { i \in Extractable(articles) :
        \A j \in Extractable(articles) :
            j < i => PaperRecord(articles[j]).PMID # PaperRecord(articles[i]).PMID }

\* C4: the returned records hold no PMID twice; of the records with one PMID
\* the first in document order is the one kept; the kept records are in
\* document order.
DedupKeepsFirst ==
    (program = "daily" /\ df # None) =>
        /\ \A a, b \in 1..Len(df) : df[a].PMID = df[b].PMID => a = b
        /\ Len(df) = Cardinality(FirstOfPmid(response))
        /\ \A k \in 1..Len(df) : df[k] = PaperRecord(response[Nth(FirstOfPmid(response), k)])

\* C4 witness: a later record with the PMID of an earlier one, and another
\* title, was dropped.
DuplicateDropped ==
    /\ program = "daily" /\ df # None
    /\ \E i, j \in 1..Len(papers) :
           i < j /\ papers[i].PMID = papers[j].PMID /\ papers[i].Title # papers[j].Title
    /\ Len(df) >= 2

LoopDone == program = "daily" /\ pc = "extract" /\ idx > Len(response)

\* C5: an article whose extraction raises is dropped and the loop goes on: at
\* the end of the loop papers holds exactly the records of the articles
\* whose extraction did not raise, in document order.
FailureIsolated ==
    LoopDone =>
        /\ Len(papers) = Cardinality(Extractable(response))
        /\ \A k \in 1..Len(papers) :
               papers[k] = PaperRecord(response[Nth(Extractable(response), k)])

\* C5 witness: an article that raised lies between two that were extracted.
FailureBetweenExtracted ==
    /\ LoopDone /\ Len(response) = 3
    /\ ~Raises(response[1]) /\ Raises(response[2]) /\ ~Raises(response[3])
    /\ Len(papers) = 2

\* C6: while a required credential is absent, no network call has been
\* attempted: the configuration error comes first.
CredentialCheckedFirst ==
    (program \in {"daily", "bot"} /\ Required(program) \ env # {}) => netCalls = <<>>

\* C7: a run of the bot that ended in failure has published no post.
FailedRunPublishesNothing ==
    (program = "bot" /\ pc = "failed") => posts = {}

\* C8: the start and the end date of the query's date clause are the same
\* calendar day: the day the program was started on, minus days_back.
SameDayWindow ==
    (program = "daily" /\ date_clause # None) =>
        /\ date_clause[1] = date_clause[2]
        /\ date_clause[1] = strftime((today - ticks) - days_back)

\* ------------------------------------------------------ clean_text under test

MaxCleanParts == 3

CleanParts ==
    { <<"&","l","t",";">>, <<"&","g","t",";">>, <<"&">>, <<"l","t">>, <<";">>,
      <<"<">>, <<">">>, <<"b">>, <<"g">>, <<" ">>, <<"\n">> }

CleanInputs == { Concat(ps) : ps \in UNION { [1..n -> CleanParts] : n \in 0..MaxCleanParts } }

InitClean ==
    /\ program = "clean_text" /\ pc = "call"
    /\ clean_in \in CleanInputs
    /\ clean_once = None /\ clean_twice = None
    /\ NoText /\ NoRun

CleanOnce ==
    /\ program = "clean_text" /\ pc = "call"
    /\ clean_once' = clean_text(clean_in)
    /\ pc' = "again"
    /\ UNCHANGED <<program, textVars, clean_in, clean_twice, runVars, dateVars, loopVars>>

CleanTwice ==
    /\ program = "clean_text" /\ pc = "again"
    /\ clean_twice' = clean_text(clean_once)
    /\ pc' = "done"
    /\ UNCHANGED <<program, textVars, clean_in, clean_once, runVars, dateVars, loopVars>>

NextClean == CleanOnce \/ CleanTwice

SpecClean == InitClean /\ [][NextClean]_vars

\* C3: clean_text is idempotent: clean_text(clean_text(s)) = clean_text(s)
\* for every string s, entity-encoded markup included.
CleanTextIdempotent ==
    (program = "clean_text" /\ pc = "done") => clean_twice = clean_once

\* --------------------------------------------------- prepare_tweet under test

MaxTweetParts == 3

TweetParts ==
    { Rep("a", 250), Rep("a", 8), <<"#","d","n","a"," ">>, <<"@","b","o">>,
      <<Emoji>>, <<" ">> }

TweetInputs == { Concat(ps) : ps \in UNION { [1..n -> TweetParts] : n \in 0..MaxTweetParts } }

\* a URL with a fragment
FragURL == myURL \o <<"#","t","o","p">>

\* the longest URL the fallback sentence fits with, and one longer
UrlInputs == { <<>>, myURL, FragURL, Rep("u", TweetLimit - Len(Fallback)),
               Rep("u", TweetLimit - Len(Fallback) + 1) }

InitTweet ==
    /\ program = "prepare_tweet" /\ pc = "call"
    /\ tweet \in TweetInputs /\ url \in UrlInputs
    /\ final_tweet = None /\ facets = <<>>
    /\ NoClean /\ NoRun

PrepareTweet ==
    /\ program = "prepare_tweet" /\ pc = "call"
    /\ final_tweet' = prepare_tweet(tweet, url)
    /\ pc' = "done"
    /\ UNCHANGED <<program, tweet, url, facets, cleanVars, runVars, dateVars, loopVars>>

NextTweet == PrepareTweet

SpecTweet == InitTweet /\ [][NextTweet]_vars

TweetDone == program = "prepare_tweet" /\ pc = "done"

\* the text after step 2 (mentions stripped, " " + url appended)
Appended == StripMentions(tweet) \o <<" ">> \o url

\* C1: when the fallback sentence plus the URL fits in 300 characters,
\* prepare_tweet returns at most 300 characters, whichever branch returns.
TweetWithinLimit ==
    (TweetDone /\ Len(Fallback \o url) <= TweetLimit) => Len(final_tweet) <= TweetLimit

\* C1 witness: the fallback branch returned, with a URL the fallback fits with.
TweetFallbackReturned ==
    /\ TweetDone /\ Len(Fallback \o url) <= TweetLimit
    /\ Len(Appended) > TweetLimit /\ Len(StripHashtags(Appended)) > TweetLimit
    /\ final_tweet = Fallback \o url

IsSuffix(suf, s) == Len(suf) <= Len(s) /\ Slice(s, Len(s) - Len(suf) + 1, Len(s)) = suf

\* C9: when only the hashtag-stripped text fits, prepare_tweet returns the
\* mention-stripped text without its #word tokens, still ending with the
\* appended URL unchanged.
HashtagBranchKeepsUrl ==
    (TweetDone /\ Len(Appended) > TweetLimit /\ Len(StripHashtags(Appended)) <= TweetLimit)
        => /\ final_tweet = StripHashtags(StripMentions(tweet)) \o <<" ">> \o url
           /\ IsSuffix(url, final_tweet)

\* --------------------------------------------------- create_facets under test

MaxFacetParts == 4

FacetParts ==
    { <<"#","a">>, <<"#">>, <<"a">>, <<" ">>, <<"\n">>, <<Emoji," ">>, <<"u","/">> }

FacetTexts == { Concat(ps) : ps \in UNION { [1..n -> FacetParts] : n \in 0..MaxFacetParts } }

\* the default url = '', a URL, and a URL that reads like a hashtag
FacetUrls == { <<>>, <<"u","/">>, <<"#","a">> }

InitFacets ==
    /\ program = "create_facets" /\ pc = "call"
    /\ final_tweet \in FacetTexts /\ url \in FacetUrls
    /\ tweet = None /\ facets = <<>>
    /\ NoClean /\ NoRun

CreateFacets ==
    /\ program = "create_facets" /\ pc = "call"
    /\ facets' = create_facets(final_tweet, url)
    /\ pc' = "done"
    /\ UNCHANGED <<program, tweet, url, final_tweet, cleanVars, runVars, dateVars, loopVars>>

NextFacets == CreateFacets

SpecFacets == InitFacets /\ [][NextFacets]_vars

FacetsDone == program = "create_facets" /\ pc = "done"

\* C2: every facet spans a non-empty byte range inside the UTF-8 encoding of
\* the text: byteStart < byteEnd <= len(text.encode('utf-8')), for every url
\* argument, the default '' included.
FacetSpansValid ==
    FacetsDone =>
        \A k \in 1..Len(facets) :
            /\ facets[k].byteStart < facets[k].byteEnd
            /\ facets[k].byteEnd <= Utf8Len(final_tweet)

\* the tokens of the text that begin with "#", by the index of their first
\* character, and the index of a token's last character
HashStarts(s) ==
    { i \in 1..Len(s) : s[i] = "#" /\ (i = 1 \/ IsSpace(s[i - 1])) }

TokenLast(s, i) ==
    CHOOSE j \in i..Len(s) :
        /\ \A m \in i..j : ~IsSpace(s[m])
        /\ (j = Len(s) \/ IsSpace(s[j + 1]))

TagsOf(fs) == SelectSeq(fs, LAMBDA f : f.type = "tag")

\* C10: the link facet (if any) comes first; then one tag facet per token
\* beginning with "#", in token order, the k-th spanning the k-th such
\* token's own bytes and carrying the token without its "#"; tag spans
\* increase strictly and do not overlap.
TagFacetsFollowTokens ==
    FacetsDone =>
        LET tags == TagsOf(facets)
            H    == HashStarts(final_tweet)
        IN  /\ \A k \in 1..Len(facets) : facets[k].type = "link" => k = 1
            /\ Len(facets) - Len(tags) <= 1
            /\ Len(tags) = Cardinality(H)
            /\ \A k \in 1..Len(tags) :
                   LET i == Nth(H, k)
                       j == TokenLast(final_tweet, i)
                   IN  /\ tags[k].byteStart = Utf8Len(Slice(final_tweet, 1, i - 1))
                       /\ tags[k].byteEnd = Utf8Len(Slice(final_tweet, 1, j))
                       /\ tags[k].value = Slice(final_tweet, i + 1, j)
            /\ \A k \in 1..(Len(tags) - 1) :
                   /\ tags[k].byteStart < tags[k + 1].byteStart
                   /\ tags[k].byteEnd <= tags[k + 1].byteStart

\* C10 witness: a link facet, then the facets of two identical hashtags
\* that follow a multi-byte character.
TwoEqualTagsAfterLink ==
    /\ FacetsDone
    /\ Len(facets) = 3 /\ facets[1].type = "link"
    /\ facets[2].type = "tag" /\ facets[3].type = "tag"
    /\ facets[2].value = facets[3].value
    /\ facets[2].byteStart >= 4

====
